---- MODULE Spec2Model ----
(***************************************************************************)
(* metrics-observer-text: TextObserver, MetricsTree, SortEntry and the     *)
(* formatting helpers of src/metrics-observer-text/src/lib.rs.             *)
(*                                                                         *)
(* A Rust String is a sequence of byte values (ASCII codes), so that       *)
(* str::cmp, format!, split and push_str are modelled by what they do.     *)
(* A HashMap is a function; its iteration order is every enumeration of    *)
(* its key set.                                                            *)
(***************************************************************************)
EXTENDS Integers, Sequences, FiniteSets, TLC

VARIABLES quantiles,  \* TextObserver.quantiles
          structure,  \* TextObserver.structure : MetricsTree
          histos,     \* TextObserver.histos : HashMap<Key, Histogram<u64>>
          out,        \* the String returned by the last call, when it was drain
          out_lines,  \* history: the lines of out
          last,       \* the last call made on the observer
          log,        \* history: the observe_* calls of the cycle the last drain closed, or of the open cycle
          prev_out,   \* history: the String returned by the drain right before the last drain
          cycle       \* history: "first" until a cycle was drained with output, then "later";
                      \* "any" where the cycles are not told apart

vars == <<quantiles, structure, histos, out, out_lines, last, log, prev_out, cycle>>

----------------------------------------------------------------------------
(* Bounds *)

\* observe_* calls between two drains
MaxObs == 3

----------------------------------------------------------------------------
(* Strings *)

\* "  " : one level of indentation
IndentUnit == <<32, 32>>
\* "\n"
NL == <<10>>
\* ":\n" : the end of a namespace header
HeaderEnd == <<58, 10>>
\* ": " : between a name and its value
ColonSpace == <<58, 32>>
\* " count: "
CountInfix == <<32, 99, 111, 117, 110, 116, 58, 32>>
\* " "
Space == <<32>>
\* '.' : the separator of name components
Dot == <<46>>

\* "  ".repeat(n)
RECURSIVE Repeat(_, _)
Repeat(s, n) == IF n = 0 THEN <<>> ELSE s \o Repeat(s, n - 1)

\* str::cmp, bytewise lexicographic: -1, 0 or 1
RECURSIVE StrCmpFrom(_, _, _)
StrCmpFrom(a, b, i) ==
    IF i > Len(a) THEN (IF i > Len(b) THEN 0 ELSE -1)
    ELSE IF i > Len(b) THEN 1
    ELSE IF a[i] < b[i] THEN -1
    ELSE IF a[i] > b[i] THEN 1
    ELSE StrCmpFrom(a, b, i + 1)

StrCmp(a, b) == StrCmpFrom(a, b, 1)

\* Display for u64 and i64: decimal digits, '-' before a negative value
RECURSIVE Digits(_)
Digits(n) == IF n < 10 THEN <<48 + n>> ELSE Digits(n \div 10) \o <<48 + (n % 10)>>

Display(v) == IF v < 0 THEN <<45>> \o Digits(0 - v) ELSE Digits(v)

\* name.split('.') : the components between separators, at least one
RECURSIVE SplitFrom(_, _, _, _)
SplitFrom(s, sep, i, cur) ==
    IF i > Len(s) THEN <<cur>>
    ELSE IF s[i] = sep THEN <<cur>> \o SplitFrom(s, sep, i + 1, <<>>)
    ELSE SplitFrom(s, sep, i + 1, Append(cur, s[i]))

Split(s, sep) == SplitFrom(s, sep, 1, <<>>)

\* Vec<String>::join(sep)
RECURSIVE Join(_, _)
Join(ss, sep) ==
    IF Len(ss) = 0 THEN <<>>
    ELSE IF Len(ss) = 1 THEN ss[1]
    ELSE ss[1] \o sep \o Join(Tail(ss), sep)

\* every order in which a HashMap with key set S can be iterated
Orders(S) == { f \in [1..Cardinality(S) -> S] : \A i, j \in 1..Cardinality(S) : f[i] = f[j] => i = j }

----------------------------------------------------------------------------
(* Quantile (metrics_util): value in permille, label derived from it *)

\* the percentage with only its significant fraction digits: 50, 99.9
PercentText(q) ==
    Digits(q \div 10) \o (IF q % 10 = 0 THEN <<>> ELSE Dot \o Digits(q % 10))

\* String::replace(".", "")
RemoveDots(s) == SelectSeq(s, LAMBDA ch : ch # 46)

\* min, max, pNN, pNNN
QuantileLabel(q) ==
    IF q = 0 THEN <<109, 105, 110>>
    ELSE IF q = 1000 THEN <<109, 97, 120>>
    ELSE RemoveDots(<<112>> \o PercentText(q))

Quantile(q) == [value |-> q, label |-> QuantileLabel(q)]

\* TextBuilder::default : 0.0, 0.5, 0.9, 0.95, 0.99, 0.999, 1.0
DefaultQuantiles ==
    [i \in 1..7 |-> Quantile(<<0, 500, 900, 950, 990, 999, 1000>>[i])]

----------------------------------------------------------------------------
(* Histogram<u64> (hdrhistogram): the recorded values with their counts;   *)
(* with 3 significant digits every value below 2048 has a bucket of its    *)
(* own, so the values of the model are read back exactly.                  *)

EmptyMap == [x \in {} |-> 0]

NewHistogram == EmptyMap

record(h, v) ==
    IF v \in DOMAIN h THEN [h EXCEPT ![v] = @ + 1]
    ELSE [w \in DOMAIN h \cup {v} |-> IF w = v THEN 1 ELSE h[w]]

RECURSIVE record_all(_, _)
record_all(h, values) ==
    IF Len(values) = 0 THEN h ELSE record_all(record(h, Head(values)), Tail(values))

RECURSIVE CountUpTo(_, _)
CountUpTo(h, S) ==
    IF S = {} THEN 0
    ELSE LET v == CHOOSE x \in S : TRUE IN h[v] + CountUpTo(h, S \ {v})

\* Histogram::len : the total count
hist_len(h) == CountUpTo(h, DOMAIN h)

\* Histogram::value_at_quantile : the first bucket at which the running
\* count reaches ceil(quantile * total), at least 1; 0 when nothing is recorded
value_at_quantile(h, q) ==
    LET total == hist_len(h)
        ceil  == (q * total + 999) \div 1000
        want  == IF ceil = 0 THEN 1 ELSE ceil
        upto(v) == CountUpTo(h, { w \in DOMAIN h : w <= v })
    IN IF total = 0 THEN 0
       ELSE CHOOSE v \in DOMAIN h :
                /\ upto(v) >= want
                /\ \A w \in DOMAIN h : w < v => upto(w) < want

----------------------------------------------------------------------------
(* Key decomposition and value formatting *)

\* k="v" for one label
LabelText(l) == l[1] \o <<61, 34>> \o l[2] \o <<34>>

\* parts.pop_back() is None and the expect panics: the name did not have a
\* single part. split('.') gives at least one part for every name (one empty
\* part for the empty name), so no name makes this true
key_to_parts_panics(key) == Len(Split(key.name, 46)) = 0

\* MUTANT of key_to_parts: the labels are left out of the display name
key_to_parts_no_labels(key) ==
    LET parts == Split(key.name, 46)
    IN [parts |-> SubSeq(parts, 1, Len(parts) - 1), fname |-> parts[Len(parts)]]

key_to_parts(key) ==
    LET parts  == Split(key.name, 46)
        name   == parts[Len(parts)]
        labels == Join([i \in 1..Len(key.labels) |-> LabelText(key.labels[i])], <<44>>)
        label  == IF Len(labels) = 0 THEN <<>> ELSE <<123>> \o labels \o <<125>>
    IN [parts |-> SubSeq(parts, 1, Len(parts) - 1), fname |-> name \o label]

single_value_to_values(name, value) == << name \o ColonSpace \o Display(value) >>

\* MUTANT of hist_to_values: a histogram without a value gives no line
hist_to_values_skips_empty(name, hist, qs) ==
    IF hist_len(hist) = 0 THEN <<>>
    ELSE << name \o CountInfix \o Display(hist_len(hist)) >>
         \o [i \in 1..Len(qs) |->
               name \o Space \o qs[i].label \o ColonSpace
                    \o Display(value_at_quantile(hist, qs[i].value))]

hist_to_values(name, hist, qs) ==
    << name \o CountInfix \o Display(hist_len(hist)) >>
    \o [i \in 1..Len(qs) |->
          name \o Space \o qs[i].label \o ColonSpace
               \o Display(value_at_quantile(hist, qs[i].value))]

----------------------------------------------------------------------------
(* MetricsTree *)

with_level(level) == [level |-> level, current |-> <<>>, next |-> EmptyMap]

\* MUTANT of insert: a child is created at the level of its parent
RECURSIVE insert_same_level(_, _, _)
insert_same_level(t, name_parts, values) ==
    IF Len(name_parts) = 0
    THEN LET indent == Repeat(IndentUnit, t.level)
         IN [t EXCEPT !.current = @ \o [i \in 1..Len(values) |-> indent \o values[i]]]
    ELSE LET name  == Head(name_parts)
             inner == IF name \in DOMAIN t.next THEN t.next[name]
                      ELSE with_level(t.level)
             done  == insert_same_level(inner, Tail(name_parts), values)
         IN [t EXCEPT !.next =
               [s \in DOMAIN t.next \cup {name} |-> IF s = name THEN done ELSE t.next[s]]]

\* MUTANT of insert: the lines of a node are replaced, not appended to
RECURSIVE insert_overwrite(_, _, _)
insert_overwrite(t, name_parts, values) ==
    IF Len(name_parts) = 0
    THEN LET indent == Repeat(IndentUnit, t.level)
         IN [t EXCEPT !.current = [i \in 1..Len(values) |-> indent \o values[i]]]
    ELSE LET name  == Head(name_parts)
             inner == IF name \in DOMAIN t.next THEN t.next[name]
                      ELSE with_level(t.level + 1)
             done  == insert_overwrite(inner, Tail(name_parts), values)
         IN [t EXCEPT !.next =
               [s \in DOMAIN t.next \cup {name} |-> IF s = name THEN done ELSE t.next[s]]]

\* MUTANT of insert: the child is created anew by every insertion through it
RECURSIVE insert_fresh_child(_, _, _)
insert_fresh_child(t, name_parts, values) ==
    IF Len(name_parts) = 0
    THEN LET indent == Repeat(IndentUnit, t.level)
         IN [t EXCEPT !.current = @ \o [i \in 1..Len(values) |-> indent \o values[i]]]
    ELSE LET name  == Head(name_parts)
             inner == with_level(t.level + 1)
             done  == insert_fresh_child(inner, Tail(name_parts), values)
         IN [t EXCEPT !.next =
               [s \in DOMAIN t.next \cup {name} |-> IF s = name THEN done ELSE t.next[s]]]

RECURSIVE insert(_, _, _)
insert(t, name_parts, values) ==
    IF Len(name_parts) = 0
    THEN LET indent == Repeat(IndentUnit, t.level)
         IN [t EXCEPT !.current = @ \o [i \in 1..Len(values) |-> indent \o values[i]]]
    ELSE LET name  == Head(name_parts)
             inner == IF name \in DOMAIN t.next THEN t.next[name]
                      ELSE with_level(t.level + 1)
             done  == insert(inner, Tail(name_parts), values)
         IN [t EXCEPT !.next =
               [s \in DOMAIN t.next \cup {name} |-> IF s = name THEN done ELSE t.next[s]]]

(* SortEntry *)
Inline(s) == [kind |-> "Inline", s |-> s]
Nested(s, inner) == [kind |-> "Nested", s |-> s, inner |-> inner]

\* SortEntry::name
entry_name(e) == e.s

\* MUTANT of entry_cmp: the operands are swapped
entry_cmp_swapped(a, b) == StrCmp(entry_name(b), entry_name(a))

\* Ord for SortEntry
entry_cmp(a, b) == StrCmp(entry_name(a), entry_name(b))

\* one step of a stable sort: e goes behind every entry that is not greater
RECURSIVE SortedInsert(_, _)
SortedInsert(sorted, e) ==
    IF Len(sorted) = 0 THEN <<e>>
    ELSE IF entry_cmp(sorted[Len(sorted)], e) <= 0 THEN Append(sorted, e)
    ELSE Append(SortedInsert(SubSeq(sorted, 1, Len(sorted) - 1), e), sorted[Len(sorted)])

RECURSIVE SortFrom(_, _, _)
SortFrom(entries, i, acc) ==
    IF i > Len(entries) THEN acc
    ELSE SortFrom(entries, i + 1, SortedInsert(acc, entries[i]))

\* MUTANT of sort: the entries stay in the order they were collected in
sort_unsorted(entries) == entries

\* Vec::sort : stable
sort(entries) == SortFrom(entries, 1, <<>>)

\* the entries of a node as render collects them: current in order, then
\* next in the iteration order ord of the map
collect(t, ord) ==
    [i \in 1..Len(t.current) |-> Inline(t.current[i])]
    \o [i \in 1..Len(ord) |-> Nested(ord[i], t.next[ord[i]])]

\* render, the returned String: one text per iteration order of the child
\* maps met on the way
RECURSIVE render(_)
RECURSIVE emit(_, _, _)
emit(sorted, i, indent) ==
    IF i > Len(sorted) THEN { <<>> }
    ELSE LET e    == sorted[i]
             rest == emit(sorted, i + 1, indent)
         IN IF e.kind = "Inline"
            THEN { e.s \o NL \o r : r \in rest }
            ELSE { indent \o e.s \o HeaderEnd \o l \o r : l \in render(e.inner), r \in rest }

render(t) ==
    LET indent == Repeat(IndentUnit, t.level)
    IN UNION { emit(sort(collect(t, ord)), 1, indent) : ord \in Orders(DOMAIN t.next) }

\* MUTANT of rendered: the lines are read without being drained
rendered_keeps_lines(t) == [t EXCEPT !.next = EmptyMap]

\* render, the node it leaves: current and next drained
rendered(t) == [level |-> t.level, current |-> <<>>, next |-> EmptyMap]

----------------------------------------------------------------------------
(* TextObserver *)

\* TextBuilder::build
build(qs) == [quantiles |-> qs, structure |-> with_level(0), histos |-> EmptyMap]

observe_counter(o, key, value) ==
    LET p == key_to_parts(key)
    IN [o EXCEPT !.structure = insert(@, p.parts, single_value_to_values(p.fname, value))]

observe_gauge(o, key, value) ==
    LET p == key_to_parts(key)
    IN [o EXCEPT !.structure = insert(@, p.parts, single_value_to_values(p.fname, value))]

\* MUTANT of observe_histogram: every call starts a new accumulator
observe_histogram_replace(o, key, values) ==
    LET done == record_all(NewHistogram, values)
    IN [o EXCEPT !.histos =
          [k \in DOMAIN o.histos \cup {key} |-> IF k = key THEN done ELSE o.histos[k]]]

\* MUTANT of observe_histogram: the count line is put in the tree at once
observe_histogram_inserts(o, key, values) ==
    LET entry == IF key \in DOMAIN o.histos THEN o.histos[key] ELSE NewHistogram
        done  == record_all(entry, values)
        p     == key_to_parts(key)
    IN [o EXCEPT !.histos =
                    [k \in DOMAIN o.histos \cup {key} |-> IF k = key THEN done ELSE o.histos[k]],
                 !.structure =
                    insert(@, p.parts, << p.fname \o CountInfix \o Display(hist_len(done)) >>)]

observe_histogram(o, key, values) ==
    LET entry == IF key \in DOMAIN o.histos THEN o.histos[key] ELSE NewHistogram
        done  == record_all(entry, values)
    IN [o EXCEPT !.histos =
          [k \in DOMAIN o.histos \cup {key} |-> IF k = key THEN done ELSE o.histos[k]]]

\* the loop of drain over histos.drain(), taken in the order ord
RECURSIVE flush(_, _, _, _)
flush(t, hs, ord, qs) ==
    IF Len(ord) = 0 THEN t
    ELSE LET key == Head(ord)
             p   == key_to_parts(key)
         IN flush(insert(t, p.parts, hist_to_values(p.fname, hs[key], qs)), hs, Tail(ord), qs)

\* drain, the returned String: one text per iteration order of the maps
drain(o) ==
    UNION { render(flush(o.structure, o.histos, ord, o.quantiles)) : ord \in Orders(DOMAIN o.histos) }

\* MUTANT of drained: the histogram map is iterated without being emptied
drained_keeps_histos(o) == [o EXCEPT !.structure = rendered(@)]

\* drain, the observer it leaves
drained(o) == [o EXCEPT !.structure = rendered(@), !.histos = EmptyMap]

----------------------------------------------------------------------------
(* Inputs *)

Key(name, labels) == [name |-> name, labels |-> labels]

\* s.z
KeySZ == Key(<<115, 46, 122>>, <<>>)
\* s.z{t="G"}
KeySZG == Key(<<115, 46, 122>>, << <<<<116>>, <<71>>>> >>)
\* s.b.c
KeySBC == Key(<<115, 46, 98, 46, 99>>, <<>>)
\* m
KeyM == Key(<<109>>, <<>>)
\* a.m
KeyAM == Key(<<97, 46, 109>>, <<>>)

CounterKeys == {KeySZ}
CounterValues == {9, 10}
GaugeKeys == {KeySZG, KeySBC, KeyM, KeyAM}
GaugeValues == {-1}
HistKeys == {KeySZ, KeySZG}
HistValues == {<<>>, <<5, 3>>}

Call(op, key, value) == [op |-> op, key |-> key, value |-> value]

apply(o, c) ==
    CASE c.op = "observe_counter"   -> observe_counter(o, c.key, c.value)
      [] c.op = "observe_gauge"     -> observe_gauge(o, c.key, c.value)
      [] c.op = "observe_histogram" -> observe_histogram(o, c.key, c.value)

----------------------------------------------------------------------------
(* The observer as a state machine *)

\* the lines of a text, each without its "\n"
OutLines(text) ==
    LET ends == SelectSeq([i \in 1..Len(text) |-> i], LAMBDA i : text[i] = 10)
    IN [k \in 1..Len(ends) |->
          SubSeq(text, (IF k = 1 THEN 1 ELSE ends[k - 1] + 1), ends[k] - 1)]

Observer == [quantiles |-> quantiles, structure |-> structure, histos |-> histos]

\* the calls of the open cycle
Open == IF last = "drain" THEN <<>> ELSE log

InitObserver ==
    /\ quantiles = DefaultQuantiles
    /\ structure = build(DefaultQuantiles).structure
    /\ histos = build(DefaultQuantiles).histos
    /\ out = <<>>
    /\ out_lines = <<>>
    /\ last = "build"
    /\ log = <<>>
    /\ prev_out = <<>>

Init == InitObserver /\ cycle = "any"

\* the same observer, its first cycle told apart from the later ones
InitCycles == InitObserver /\ cycle = "first"

\* the effect of one observe_* call that returns: observe_counter and
\* observe_gauge decompose the key at once, observe_histogram does not
Observe(c) ==
    /\ c.op # "observe_histogram" => ~key_to_parts_panics(c.key)
    /\ LET o == apply(Observer, c)
       IN /\ structure' = o.structure
          /\ histos' = o.histos
    /\ out' = <<>>
    /\ out_lines' = <<>>
    /\ last' = c.op
    /\ log' = Append(Open, c)
    /\ prev_out' = <<>>
    /\ cycle' = (IF cycle = "first" /\ last = "drain" /\ out # <<>> THEN "later" ELSE cycle)
    /\ UNCHANGED quantiles

ObserveCounter ==
    \E key \in CounterKeys, value \in CounterValues :
        /\ Len(Open) < MaxObs
        /\ Observe(Call("observe_counter", key, value))

ObserveGauge ==
    \E key \in GaugeKeys, value \in GaugeValues :
        /\ Len(Open) < MaxObs
        /\ Observe(Call("observe_gauge", key, value))

ObserveHistogram ==
    \E key \in HistKeys, values \in HistValues :
        /\ Len(Open) < MaxObs
        /\ Observe(Call("observe_histogram", key, values))

Drain ==
    /\ \A key \in DOMAIN histos : ~key_to_parts_panics(key)
    /\ \E text \in drain(Observer) : out' = text /\ out_lines' = OutLines(text)
    /\ LET o == drained(Observer)
       IN /\ structure' = o.structure
          /\ histos' = o.histos
    /\ last' = "drain"
    /\ log' = Open
    /\ prev_out' = (IF last = "drain" THEN out ELSE <<>>)
    /\ UNCHANGED <<quantiles, cycle>>

Next == ObserveCounter \/ ObserveGauge \/ ObserveHistogram \/ Drain

Spec == Init /\ [][Next]_vars

SpecCycles == InitCycles /\ [][Next]_vars

----------------------------------------------------------------------------
(* Reading a drained text and a cycle's calls, for the properties below *)


RECURSIVE LeadingSpacesFrom(_, _)
LeadingSpacesFrom(line, i) ==
    IF i <= Len(line) /\ line[i] = 32 THEN LeadingSpacesFrom(line, i + 1) ELSE i - 1

LeadingSpaces(line) == LeadingSpacesFrom(line, 1)

IsHeader(line) == Len(line) > 0 /\ line[Len(line)] = 58

\* a line without its indentation
Content(line) == SubSeq(line, LeadingSpaces(line) + 1, Len(line))

\* the segment name of a header line
HeaderName(line) == SubSeq(line, LeadingSpaces(line) + 1, Len(line) - 1)

RECURSIVE NameEndFrom(_, _)
NameEndFrom(line, i) ==
    IF i > Len(line) \/ line[i] = 32 \/ line[i] = 58 THEN i - 1 ELSE NameEndFrom(line, i + 1)

\* the leaf display name of a metric line: its content up to the first ' ' or ':'
LeafName(line) ==
    LET from == LeadingSpaces(line) + 1 IN SubSeq(line, from, NameEndFrom(line, from))

IsPrefix(p, s) == Len(p) <= Len(s) /\ SubSeq(s, 1, Len(p)) = p

\* the nearest of the lines i, i-1, ..., 1 that is a header indented by n
\* spaces; 0 when there is none
RECURSIVE HeaderAbove(_, _, _, _)
HeaderAbove(hdr, ind, i, n) ==
    IF i = 0 THEN 0
    ELSE IF hdr[i] /\ ind[i] = n THEN i
    ELSE HeaderAbove(hdr, ind, i - 1, n)

\* the header every line is nested under: the nearest header above it that
\* is indented one level less; 0 for an entry of the root
\* a function on 1..n as the tuple of its values
Tuple(f) == f \o <<>>

Indents(L) == Tuple([j \in 1..Len(L) |-> LeadingSpaces(L[j])])

Parents(L) ==
    LET ind == Indents(L)
        hdr == Tuple([j \in 1..Len(L) |-> IsHeader(L[j])])
    IN Tuple([j \in 1..Len(L) |-> HeaderAbove(hdr, ind, j - 1, ind[j] - 2)])

\* the names of the headers a line is nested under, outermost first
RECURSIVE AncestorNames(_, _, _)
AncestorNames(L, par, j) ==
    IF par[j] = 0 THEN <<>>
    ELSE Append(AncestorNames(L, par, par[j]), HeaderName(L[par[j]]))

\* the path and the leaf display name the text format gives a key:
\* the components before the last, and the last with {k="v",...} appended
PathOf(key) == LET parts == Split(key.name, 46) IN SubSeq(parts, 1, Len(parts) - 1)

TagSuffix(key) ==
    IF Len(key.labels) = 0 THEN <<>>
    ELSE <<123>>
         \o Join([i \in 1..Len(key.labels) |->
                    key.labels[i][1] \o <<61, 34>> \o key.labels[i][2] \o <<34>>], <<44>>)
         \o <<125>>

LeafOf(key) == LET parts == Split(key.name, 46) IN parts[Len(parts)] \o TagSuffix(key)

\* the indentation of the lines of a metric with k path segments
Spaces(n) == [i \in 1..n |-> 32]

IsScalar(c) == c.op \in {"observe_counter", "observe_gauge"}
IsHist(c) == c.op = "observe_histogram"

ScalarKeys(calls) == { calls[i].key : i \in { n \in 1..Len(calls) : IsScalar(calls[n]) } }
HistKeysOf(calls) == { calls[i].key : i \in { n \in 1..Len(calls) : IsHist(calls[n]) } }

\* the line of one scalar observation
ScalarLine(key, value) ==
    Spaces(2 * Len(PathOf(key))) \o LeafOf(key) \o ColonSpace \o Display(value)

\* the start of a histogram line: the count line for word "count", a
\* quantile's line for its label
HistLineStart(key, word) ==
    Spaces(2 * Len(PathOf(key))) \o LeafOf(key) \o Space \o word \o ColonSpace

CountWord == <<99, 111, 117, 110, 116>>

\* the words of a histogram's lines in the order of the configuration
HistWords(qs) == <<CountWord>> \o [i \in 1..Len(qs) |-> qs[i].label]

Positions(L, start) == { j \in 1..Len(L) : IsPrefix(start, L[j]) }

Drained == last = "drain"

\* lines i and j of a text are siblings, i emitted first: nested under the
\* same header (or both under none) at the same indentation
Siblings(par, ind, i, j) == i < j /\ par[i] = par[j] /\ ind[i] = ind[j]

\* the name of an entry: the segment of a header, the leaf display name of a line
EntryName(line) == IF IsHeader(line) THEN HeaderName(line) ELSE LeafName(line)

\* the sort key of an entry: the segment of a header, the stored text of a line
SortKey(line) == IF IsHeader(line) THEN HeaderName(line) ELSE line

----------------------------------------------------------------------------
(* Properties *)

\* C1: every histogram identity observed in the drained cycle has exactly
\* one count line and one line per configured quantile in the text drain
\* returns, and they stand in the order count, min, p50, p90, p95, p99,
\* p999, max (the order of the configuration).
C1_HistogramLinesInConfiguredOrder ==
    Drained =>
        \A key \in HistKeysOf(log) :
            LET L      == out_lines
                words  == HistWords(quantiles)
                pos(i) == Positions(L, HistLineStart(key, words[i]))
            IN /\ \A i \in 1..Len(words) : Cardinality(pos(i)) = 1
               /\ \A i \in 1..(Len(words) - 1) :
                      \A a \in pos(i), b \in pos(i + 1) : a < b

\* C2: at every level the direct lines and the child headers interleave by
\* name: of two sibling entries the one with the smaller name (leaf display
\* name of a line, segment of a header) is emitted first.
C2_SiblingsInterleaveByName ==
    Drained =>
        LET L   == out_lines
            par == Parents(L)
            ind == Indents(L)
        IN \A i \in 1..Len(L) : \A j \in (i + 1)..Len(L) :
               Siblings(par, ind, i, j) => StrCmp(EntryName(L[i]), EntryName(L[j])) <= 0

\* C3: drain is one-shot: after a drain the tree (lines and children of the
\* root) and the histogram map are empty, and a drain with no observation
\* since the drain before it returns the empty string.
C3_DrainIsOneShot ==
    Drained =>
        /\ structure.current = <<>>
        /\ DOMAIN structure.next = {}
        /\ DOMAIN histos = {}
        /\ (log = <<>> => out = <<>>)

\* a second drain in a row, after a first one that returned text
C3_Witness ==
    /\ Drained
    /\ log = <<>>
    /\ prev_out # <<>>
    /\ out = <<>>

Ancestors(L) ==
    LET par == Parents(L) IN Tuple([j \in 1..Len(L) |-> AncestorNames(L, par, j)])

\* the calls of a cycle that observe a key as a scalar, as a histogram
ScalarCalls(calls, key) == { i \in 1..Len(calls) : IsScalar(calls[i]) /\ calls[i].key = key }
HistCalls(calls, key) == { i \in 1..Len(calls) : IsHist(calls[i]) /\ calls[i].key = key }

\* the number of values a cycle passes to observe_histogram for a key
RECURSIVE TotalValues(_, _, _)
TotalValues(calls, key, i) ==
    IF i > Len(calls) THEN 0
    ELSE (IF IsHist(calls[i]) /\ calls[i].key = key THEN Len(calls[i].value) ELSE 0)
         + TotalValues(calls, key, i + 1)

\* the count line of a histogram identity in the text of a cycle
CountLine(calls, key) ==
    HistLineStart(key, CountWord) \o Display(TotalValues(calls, key, 1))

\* a count line: " count: " right behind the leaf display name
IsCountLine(line) ==
    LET e == NameEndFrom(line, LeadingSpaces(line) + 1)
    IN e + Len(CountInfix) <= Len(line) /\ SubSeq(line, e + 1, e + Len(CountInfix)) = CountInfix

C6_ScalarsAccumulate ==
    Drained =>
        LET L == out_lines
        IN \A key \in ScalarKeys(log) :
             LET calls == ScalarCalls(log, key)
                 start == Spaces(2 * Len(PathOf(key))) \o LeafOf(key) \o ColonSpace
             IN /\ Cardinality(Positions(L, start)) = Cardinality(calls)
                /\ \A i \in calls :
                     Cardinality({ j \in 1..Len(L) : L[j] = ScalarLine(key, log[i].value) })
                       = Cardinality({ n \in calls : log[n].value = log[i].value })

\* one identity observed three times, twice with the same value
C6_Witness ==
    /\ Drained
    /\ \E i, j, k \in 1..Len(log) :
          /\ i < j /\ j # k /\ i # k
          /\ IsScalar(log[i]) /\ IsScalar(log[j]) /\ IsScalar(log[k])
          /\ log[i].key = log[j].key /\ log[j].key = log[k].key
          /\ log[i].value = log[j].value /\ log[k].value # log[i].value
    /\ Len(out_lines) >= 3

\* C7: the observe_histogram calls for one identity between two drains merge
\* into one accumulator: the next drain emits exactly one count line per
\* identity observed (also when only empty sequences were passed), and its N
\* is the number of values passed for the identity in all those calls.
C7_HistogramsMerge ==
    Drained =>
        LET L == out_lines
        IN /\ \A key \in HistKeysOf(log) :
                /\ Cardinality(Positions(L, HistLineStart(key, CountWord))) = 1
                /\ \E j \in 1..Len(L) : L[j] = CountLine(log, key)
           /\ Cardinality({ j \in 1..Len(L) : IsCountLine(L[j]) })
                = Cardinality(HistKeysOf(log))

\* one identity observed twice with values, another only with no values
C7_Witness ==
    /\ Drained
    /\ \E i, j, k \in 1..Len(log) :
          /\ i < j
          /\ IsHist(log[i]) /\ IsHist(log[j]) /\ IsHist(log[k])
          /\ log[i].key = log[j].key /\ log[k].key # log[i].key
          /\ Len(log[i].value) > 0 /\ Len(log[j].value) > 0 /\ Len(log[k].value) = 0
    /\ \E key \in HistKeysOf(log) : TotalValues(log, key, 1) = 4

\* the line that stands for a call in the text of its cycle: the line of a
\* scalar observation, the count line of a histogram identity
CallLine(calls, i) ==
    IF IsScalar(calls[i]) THEN ScalarLine(calls[i].key, calls[i].value)
    ELSE CountLine(calls, calls[i].key)

\* C8: observations with the same name and different tag sets are distinct
\* identities: they give two distinct leaf lines under the same header, both
\* in the text; two histograms keep separate accumulators and count lines.
C8_TagSetsAreDistinctIdentities ==
    Drained =>
        LET L    == out_lines
            par  == Parents(L)
            ind  == Indents(L)
            line == Tuple([i \in 1..Len(log) |-> CallLine(log, i)])
        IN \A i, j \in 1..Len(log) :
             (log[i].key.name = log[j].key.name /\ log[i].key.labels # log[j].key.labels) =>
                \E a, b \in 1..Len(L) :
                    /\ L[a] = line[i] /\ L[b] = line[j]
                    /\ a # b /\ L[a] # L[b]
                    /\ par[a] = par[b] /\ ind[a] = ind[b]

\* two histograms of one name with different tag sets and different totals,
\* and a scalar of that name
C8_Witness ==
    /\ Drained
    /\ \E i, j, k \in 1..Len(log) :
          /\ IsHist(log[i]) /\ IsHist(log[j]) /\ IsScalar(log[k])
          /\ log[i].key.name = log[j].key.name /\ log[i].key.labels # log[j].key.labels
          /\ log[k].key.name = log[i].key.name
          /\ TotalValues(log, log[i].key, 1) # TotalValues(log, log[j].key, 1)

\* the observer after a sequence of calls
RECURSIVE Replay(_, _)
Replay(o, calls) ==
    IF Len(calls) = 0 THEN o ELSE Replay(apply(o, Head(calls)), Tail(calls))

\* a text that is different for different calls, to arrange calls by
OpDigit(c) ==
    CASE c.op = "observe_counter"   -> <<49>>
      [] c.op = "observe_gauge"     -> <<50>>
      [] c.op = "observe_histogram" -> <<51>>

CallText(c) ==
    OpDigit(c) \o c.key.name \o Space \o TagSuffix(c.key) \o Space
    \o (IF IsHist(c) THEN Join([i \in 1..Len(c.value) |-> Display(c.value[i])], <<44>>)
        ELSE Display(c.value))

RECURSIVE ArrangeInsert(_, _)
ArrangeInsert(done, c) ==
    IF Len(done) = 0 THEN <<c>>
    ELSE IF StrCmp(CallText(done[Len(done)]), CallText(c)) <= 0 THEN Append(done, c)
    ELSE Append(ArrangeInsert(SubSeq(done, 1, Len(done) - 1), c), done[Len(done)])

RECURSIVE ArrangeFrom(_, _, _)
ArrangeFrom(calls, i, done) ==
    IF i > Len(calls) THEN done ELSE ArrangeFrom(calls, i + 1, ArrangeInsert(done, calls[i]))

\* the one arrangement of a collection of calls that every permutation of
\* it shares
Arranged(calls) == ArrangeFrom(calls, 1, <<>>)

\* C9: after a drain the observer is reset and reusable: whatever was
\* observed and drained before, the drain that closes a cycle of calls
\* returns exactly the text a freshly built observer with the same quantiles
\* returns for those calls.
C9_DrainedObserverIsFresh ==
    Drained => drain(Replay(build(quantiles), log)) = {out}

\* a second cycle with text, on an observer whose first cycle gave text
C9_Witness ==
    /\ Drained
    /\ cycle = "later"
    /\ Len(log) >= 2
    /\ \E i \in 1..Len(log) : IsHist(log[i])
    /\ out # <<>>

\* C10: the text drain returns does not depend on the order of the calls nor
\* on the iteration order of the maps: the calls of a cycle, made in any
\* order, drain to the one text that their fixed arrangement drains to (every
\* order of the calls is a cycle of the observer, so all orders agree).
C10_TextIndependentOfCallOrder ==
    Drained => drain(Replay(build(quantiles), Arranged(log))) = {out}

\* calls made out of their fixed arrangement: two histogram identities (two
\* entries of the histogram map) and a scalar under another root segment
\* (two entries of the root's child map)
C10_Witness ==
    /\ Drained
    /\ \E i \in 1..Len(log) : CallText(log[i]) # CallText(Arranged(log)[i])
    /\ Cardinality(HistKeysOf(log)) = 2
    /\ \E i, j \in 1..Len(log) :
          /\ IsHist(log[i]) /\ IsScalar(log[j])
          /\ Len(PathOf(log[i].key)) > 0 /\ Len(PathOf(log[j].key)) > 0
          /\ PathOf(log[i].key)[1] # PathOf(log[j].key)[1]
    /\ out # <<>>

\* the calls of a sequence that are scalar observations, histogram observations
OnlyScalars(calls) == SelectSeq(calls, IsScalar)
OnlyHists(calls) == SelectSeq(calls, IsHist)

\* C11: observe_histogram changes the histogram map only and leaves the tree
\* as it is; observe_counter and observe_gauge change the tree only and leave
\* the histogram map as it is; histogram lines enter the tree only during
\* drain: between two calls the tree holds exactly what the scalar
\* observations of the open cycle put there, and the histogram map exactly
\* what its histogram observations put there.
C11_ObservationsKeepToTheirStore ==
    /\ [](/\ structure = Replay(build(quantiles), OnlyScalars(Open)).structure
          /\ histos = Replay(build(quantiles), OnlyHists(Open)).histos)
    /\ [][/\ last' = "observe_histogram" => structure' = structure
          /\ last' \in {"observe_counter", "observe_gauge"} => histos' = histos]_vars

\* an observe_histogram call right after a scalar observation that found
\* recorded values in the histogram map, the tree and the map both filled
C11_Witness ==
    /\ last = "observe_histogram"
    /\ Len(log) = 3
    /\ IsHist(log[1]) /\ Len(log[1].value) > 0
    /\ IsScalar(log[2])
    /\ DOMAIN structure.next # {}
    /\ \E k \in DOMAIN histos : hist_len(histos[k]) > 0

\* the lines a cycle of calls inserts in the tree, as they are stored: one
\* per scalar observation, and for every histogram identity its count line
\* and one line per quantile, made when the cycle is drained
RECURSIVE ConcatAll(_)
ConcatAll(ss) == IF Len(ss) = 0 THEN <<>> ELSE Head(ss) \o ConcatAll(Tail(ss))

InsertedLines(calls, qs) ==
    LET hs      == Replay(build(qs), calls).histos
        scalars == OnlyScalars(calls)
        keys    == CHOOSE ord \in Orders(DOMAIN hs) : TRUE
        hist(k) == LET ls == hist_to_values(LeafOf(k), hs[k], qs)
                   IN [i \in 1..Len(ls) |-> Spaces(2 * Len(PathOf(k))) \o ls[i]]
    IN Tuple([i \in 1..Len(scalars) |-> ScalarLine(scalars[i].key, scalars[i].value)])
       \o ConcatAll([i \in 1..Len(keys) |-> hist(keys[i])])

\* the distinct non-empty path prefixes a cycle of calls inserts through
PathPrefixes(calls) ==
    UNION { { SubSeq(PathOf(calls[i].key), 1, n) : n \in 1..Len(PathOf(calls[i].key)) }
            : i \in 1..Len(calls) }

\* how often a value stands in a sequence
Occurrences(seq, x) == Cardinality({ i \in 1..Len(seq) : seq[i] = x })

RECURSIVE HasLine(_)
HasLine(t) == Len(t.current) > 0 \/ \E s \in DOMAIN t.next : HasLine(t.next[s])

\* every node below t has a line in its subtree
RECURSIVE EveryNodeHasLine(_)
EveryNodeHasLine(t) ==
    \A s \in DOMAIN t.next : HasLine(t.next[s]) /\ EveryNodeHasLine(t.next[s])

\* C14: in every state every node of the tree but the root has at least one
\* line in its subtree, between the calls and also when drain has inserted
\* the histogram lines and starts to render; so in the text drain returns
\* every header is directly followed by a line nested under it (a metric line
\* or a deeper header), and has a metric line somewhere under it: no header
\* stands with nothing under it.
C14_NoEmptyNamespace ==
    /\ EveryNodeHasLine(structure)
    /\ \A ord \in Orders(DOMAIN histos) :
          EveryNodeHasLine(flush(structure, histos, ord, quantiles))
    /\ Drained =>
          LET L   == out_lines
              par == Parents(L)
              anc == Ancestors(L)
          IN \A j \in 1..Len(L) :
               IsHeader(L[j]) =>
                  /\ j < Len(L)
                  /\ par[j + 1] = j
                  /\ \E k \in (j + 1)..Len(L) :
                        /\ ~IsHeader(L[k])
                        /\ IsPrefix(Append(anc[j], HeaderName(L[j])), anc[k])

\* a namespace whose only direct lines are those of a histogram without a
\* value, and a header nested in it
C14_Witness ==
    /\ Drained
    /\ \E key \in HistKeysOf(log) :
          /\ TotalValues(log, key, 1) = 0
          /\ Len(PathOf(key)) = 1
          /\ \A i \in 1..Len(log) :
                (IsScalar(log[i]) /\ Len(PathOf(log[i].key)) > 0
                   /\ PathOf(log[i].key)[1] = PathOf(key)[1]) => Len(PathOf(log[i].key)) = 2
    /\ \E j \in 1..Len(out_lines) :
          IsHeader(out_lines[j]) /\ LeadingSpaces(out_lines[j]) = 2

====
